---- MODULE Spec2Model ----
(***************************************************************************)
(* Model of the Streamlit chat client of acr_frontend (src/app/main.py;    *)
(* src/src/main.py is the earlier revision with the same decode loop).     *)
(*                                                                         *)
(* A byte is a string: an ASCII byte is the one-character string of its    *)
(* character, a non-ASCII byte is named by its hex value ("xC3").  Byte    *)
(* strings and Python str values are sequences of such strings.            *)
(***************************************************************************)
EXTENDS Integers, Sequences, FiniteSets, TLC

(***************************************************************************)
(* Bounds of the model.                                                    *)
(***************************************************************************)
\* what one browser session asks of the backend: one for every chat request
\* and one for every JSON object of its reply
MaxLoad == 4

(***************************************************************************)
(* Program constants.                                                      *)
(***************************************************************************)
\* response.iter_content(chunk_size=1024)
CHUNK_SIZE == 1024
\* maximum number of documents allowed in the database
DB_DOCS_LIMIT == 10

(***************************************************************************)
(* bytes.decode("utf-8"): strict decoding.  The model's byte alphabet has  *)
(* the ASCII bytes and the two bytes C3 A9 of U+00E9.                      *)
(***************************************************************************)
LeadBytes == {"xC3"}
ContBytes == {"xA9"}
CodePoint(lead, cont) == "U+00E9"

\* TRUE where Python raises UnicodeDecodeError: a lead byte without its
\* continuation byte, or a continuation byte without its lead byte
Utf8Invalid(b) ==
    \E i \in 1..Len(b) :
        \/ b[i] \in LeadBytes /\ (i = Len(b) \/ b[i + 1] \notin ContBytes)
        \/ b[i] \in ContBytes /\ (i = 1 \/ b[i - 1] \notin LeadBytes)

NotContByte(c) == c \notin ContBytes

\* every two-byte sequence becomes its one character, every ASCII byte is
\* its own character
Utf8Decode(b) ==
    IF Utf8Invalid(b) THEN [ok |-> FALSE, chars |-> <<>>]
    ELSE [ok |-> TRUE,
          chars |-> SelectSeq([i \in 1..Len(b) |->
                                  IF b[i] \in LeadBytes
                                  THEN CodePoint(b[i], b[i + 1])
                                  ELSE b[i]],
                              NotContByte)]

(***************************************************************************)
(* json.loads on a str, for the JSON texts the model's alphabet can spell: *)
(* objects whose member values are strings or objects, strings without     *)
(* backslash escapes, and insignificant whitespace.  A decoded string is   *)
(* [kind |-> "str"], a decoded object (a dict) is [kind |-> "obj"] with    *)
(* obj a function from keys (character sequences) to decoded values.       *)
(***************************************************************************)
Whitespace == {" ", "\t", "\n", "\r"}
\* the characters scanstring rejects inside a string
ControlChars == {"\t", "\n", "\r"}

StrVal(s) == [kind |-> "str", str |-> s, obj |-> <<>>]
ObjVal(f) == [kind |-> "obj", str |-> <<>>, obj |-> f]
NoVal == [kind |-> "none", str |-> <<>>, obj |-> <<>>]
ParseFail == [ok |-> FALSE, val |-> NoVal, end |-> 0]

RECURSIVE SkipWs(_, _)
\* WHITESPACE.match(s, i).end(): the first index at or after i that holds
\* no whitespace
SkipWs(s, i) ==
    IF i <= Len(s) /\ s[i] \in Whitespace THEN SkipWs(s, i + 1) ELSE i

RECURSIVE ScanStringEnd(_, _)
\* scanstring: the index of the closing quote of the string whose first
\* character is at i, or 0 when the string is unterminated or holds a
\* control character
ScanStringEnd(s, i) ==
    IF i > Len(s) THEN 0
    ELSE IF s[i] = "\"" THEN i
    ELSE IF s[i] \in ControlChars THEN 0
    ELSE ScanStringEnd(s, i + 1)

RECURSIVE ParseValue(_, _)
RECURSIVE ParseMembers(_, _, _)

\* JSONObject's loop; i is the index after the opening quote of a key, acc
\* the pairs read so far (dict(pairs): a repeated key keeps the last value)
ParseMembers(s, i, acc) ==
    LET q == ScanStringEnd(s, i) IN
    IF q = 0 THEN ParseFail
    ELSE
    LET key   == SubSeq(s, i, q - 1)
        colon == SkipWs(s, q + 1)
    IN
    IF colon > Len(s) \/ s[colon] # ":" THEN ParseFail
    ELSE
    LET v == ParseValue(s, SkipWs(s, colon + 1)) IN
    IF ~v.ok THEN ParseFail
    ELSE
    LET pairs == (key :> v.val) @@ acc
        nxt   == SkipWs(s, v.end)
    IN
    IF nxt > Len(s) THEN ParseFail
    ELSE IF s[nxt] = "}" THEN [ok |-> TRUE, val |-> ObjVal(pairs), end |-> nxt + 1]
    ELSE IF s[nxt] # "," THEN ParseFail
    ELSE
    LET k == SkipWs(s, nxt + 1) IN
    IF k > Len(s) \/ s[k] # "\"" THEN ParseFail
    ELSE ParseMembers(s, k + 1, pairs)

\* JSONObject; i is the index after the opening brace
ParseObject(s, i) ==
    LET j == SkipWs(s, i) IN
    IF j > Len(s) THEN ParseFail
    ELSE IF s[j] = "}" THEN [ok |-> TRUE, val |-> ObjVal(<<>>), end |-> j + 1]
    ELSE IF s[j] # "\"" THEN ParseFail
    ELSE ParseMembers(s, j + 1, <<>>)

\* scan_once: one value starting at i; end is the index after it
ParseValue(s, i) ==
    IF i > Len(s) THEN ParseFail
    ELSE IF s[i] = "\"" THEN
        LET q == ScanStringEnd(s, i + 1) IN
        IF q = 0 THEN ParseFail
        ELSE [ok |-> TRUE, val |-> StrVal(SubSeq(s, i + 1, q - 1)), end |-> q + 1]
    ELSE IF s[i] = "{" THEN ParseObject(s, i + 1)
    ELSE ParseFail

\* JsonDecode as JSONDecoder.raw_decode would do it: the first value, and
\* whatever follows it ignored
JsonDecodeFirst(s) ==
    LET r == ParseValue(s, SkipWs(s, 1)) IN
    IF ~r.ok THEN ParseFail ELSE r

\* JSONDecoder.decode: leading whitespace, one value, trailing whitespace,
\* and "Extra data" when anything is left
JsonDecode(s) ==
    LET r == ParseValue(s, SkipWs(s, 1)) IN
    IF ~r.ok THEN ParseFail
    ELSE IF SkipWs(s, r.end) # Len(s) + 1 THEN ParseFail
    ELSE r

\* json.loads(buffer.decode("utf-8")): the decoded value, or the exception
\* the expression raises
LoadsBuffer(buf) ==
    LET u == Utf8Decode(buf) IN
    IF ~u.ok THEN [exc |-> "UnicodeDecodeError", val |-> NoVal]
    ELSE LET r == JsonDecode(u.chars) IN
         IF r.ok THEN [exc |-> "none", val |-> r.val]
         ELSE [exc |-> "JSONDecodeError", val |-> NoVal]

(***************************************************************************)
(* base64.b64decode(s) for a str s: binascii.a2b_base64 in its default,    *)
(* non-strict mode.  Decoded bytes are integers 0..255.                    *)
(***************************************************************************)
B64Alphabet ==
    << "A","B","C","D","E","F","G","H","I","J","K","L","M","N","O","P",
       "Q","R","S","T","U","V","W","X","Y","Z","a","b","c","d","e","f",
       "g","h","i","j","k","l","m","n","o","p","q","r","s","t","u","v",
       "w","x","y","z","0","1","2","3","4","5","6","7","8","9","+","/" >>

B64Value(c) == (CHOOSE i \in 1..64 : B64Alphabet[i] = c) - 1

IsB64Char(c) == \E i \in 1..64 : B64Alphabet[i] = c

IsAscii(c) == c \notin LeadBytes \cup ContBytes \cup {"U+00E9"}

RECURSIVE A2bBase64(_, _, _, _, _, _)
\* the loop of a2b_base64 from index i on: quad is the position in the
\* current group of four, left the bits not yet written, pads the padding
\* characters seen in a row, out the bytes written
A2bBase64(s, i, quad, left, pads, out) ==
    IF i > Len(s)
    THEN [ok |-> quad = 0, bytes |-> IF quad = 0 THEN out ELSE <<>>]
    ELSE IF s[i] = "="
         THEN IF quad >= 2 /\ quad + pads + 1 >= 4
              THEN [ok |-> TRUE, bytes |-> out]
              ELSE A2bBase64(s, i + 1, quad, left,
                             IF quad >= 2 THEN pads + 1 ELSE pads, out)
    ELSE IF ~IsB64Char(s[i]) THEN A2bBase64(s, i + 1, quad, left, pads, out)
    ELSE
    LET c == B64Value(s[i]) IN
    CASE quad = 0 -> A2bBase64(s, i + 1, 1, c, 0, out)
      [] quad = 1 -> A2bBase64(s, i + 1, 2, c % 16, 0,
                               Append(out, left * 4 + c \div 16))
      [] quad = 2 -> A2bBase64(s, i + 1, 3, c % 4, 0,
                               Append(out, left * 16 + c \div 4))
      [] quad = 3 -> A2bBase64(s, i + 1, 0, 0, 0,
                               Append(out, left * 64 + c))

\* ok is FALSE where b64decode raises (binascii.Error for bad padding,
\* ValueError for a non-ASCII character)
B64Decode(s) ==
    IF \E i \in 1..Len(s) : ~IsAscii(s[i]) THEN [ok |-> FALSE, bytes |-> <<>>]
    ELSE A2bBase64(s, 1, 0, 0, 0, <<>>)

(***************************************************************************)
(* The response bodies the backend writes: JSON objects back to back with  *)
(* no separator, each spelled without insignificant whitespace.            *)
(***************************************************************************)
K_type == <<"t","y","p","e">>
K_content == <<"c","o","n","t","e","n","t">>
K_alt_text == <<"a","l","t","_","t","e","x","t">>
T_text == <<"t","e","x","t">>
T_image == <<"i","m","a","g","e">>
T_chart == <<"c","h","a","r","t">>

\* the members of each kind of object the backend may write, in wire order
Members(kind) ==
    CASE kind = "text"    -> << <<K_type, T_text>>, <<K_content, <<"H","i">> >> >>
      [] kind = "image"   -> << <<K_type, T_image>>, <<K_content, <<"a","G","k","=">> >> >>
      [] kind = "chart"   -> << <<K_type, T_chart>> >>
      [] kind = "notype"  -> << <<K_content, <<"H","i">> >> >>
      [] kind = "badb64"  -> << <<K_type, T_image>>, <<K_content, <<"a">> >> >>
      [] kind = "utf8"    -> << <<K_type, T_text>>, <<K_content, <<"xC3","xA9">> >> >>
      [] kind = "emptyAlt" -> << <<K_type, T_image>>,
                                 <<K_content, <<"a","G","k","=">> >>,
                                 <<K_alt_text, <<>> >> >>
      [] kind = "exText"  -> << <<K_type, T_text>>,
                                <<K_content, <<"H","e","l","l","o">> >> >>
      [] kind = "exImage" -> << <<K_type, T_image>>,
                                <<K_content, <<"a","G","k","=">> >>,
                                <<K_alt_text, <<"x">> >> >>

\* well-formed text and image blocks, and objects that are not
ValidKinds == {"text", "image"}
FaultyKinds == {"chart", "notype", "badb64"}
\* well-formed blocks of the less common shapes: a text with a two-byte
\* character, an image with an empty and one with a non-empty alt_text
VariantKinds == {"utf8", "emptyAlt", "exImage"}
Kinds == ValidKinds \cup FaultyKinds \cup VariantKinds

Quoted(chars) == <<"\"">> \o chars \o <<"\"">>

RECURSIVE WireMembers(_, _)
WireMembers(ms, i) ==
    IF i > Len(ms) THEN <<>>
    ELSE (IF i > 1 THEN <<",">> ELSE <<>>)
         \o Quoted(ms[i][1]) \o <<":">> \o Quoted(ms[i][2])
         \o WireMembers(ms, i + 1)

\* the bytes of one object on the wire
Wire(kind) == <<"{">> \o WireMembers(Members(kind), 1) \o <<"}">>

\* the dict the object stands for: its member values are the characters
\* the bytes on the wire spell
BlockValue(kind) ==
    LET ms == Members(kind) IN
    ObjVal([k \in {ms[i][1] : i \in 1..Len(ms)} |->
               StrVal(Utf8Decode(ms[CHOOSE i \in 1..Len(ms) : ms[i][1] = k][2]).chars)])

RECURSIVE Body(_)
\* the bytes of a response body made of the objects of the given kinds
Body(kinds) ==
    IF kinds = <<>> THEN <<>> ELSE Wire(Head(kinds)) \o Body(Tail(kinds))

\* the dicts a response body stands for, in source order
Blocks(kinds) == [i \in 1..Len(kinds) |-> BlockValue(kinds[i])]

IsValidKind(kind) == kind \in ValidKinds

\* the bodies the backend may answer a chat request with: any sequence of
\* text and image blocks; the sequences of alternating text and image
\* blocks with one faulty object put in anywhere; and a block of a less
\* common shape, alone or next to one text or image block
Bodies ==
    {b \in UNION {[1..n -> Kinds] : n \in 0..(MaxLoad - 1)} :
        LET faulty  == {i \in 1..Len(b) : b[i] \in FaultyKinds}
            variant == {i \in 1..Len(b) : b[i] \in VariantKinds}
            valid   == SelectSeq(b, IsValidKind)
        IN \/ faulty = {} /\ variant = {}
           \/ /\ Cardinality(faulty) = 1 /\ variant = {}
              /\ \A i \in 1..(Len(valid) - 1) : valid[i] # valid[i + 1]
           \/ /\ Cardinality(variant) = 1 /\ faulty = {}
              /\ Len(b) <= 2}

(***************************************************************************)
(* Rendering of the turn's blocks into the placeholder (the loop over      *)
(* response_chunks that follows every successful parse).  st.markdown and  *)
(* st.image are sinks that accept what they are given.                     *)
(***************************************************************************)
DefaultCaption ==
    <<"G","e","n","e","r","a","t","e","d"," ","I","m","a","g","e">>

MarkdownElement(text) ==
    [kind |-> "markdown", text |-> text, data |-> <<>>, caption |-> <<>>]
ImageElement(data, caption) ==
    [kind |-> "image", text |-> <<>>, data |-> data, caption |-> caption]

HasKey(item, key) == key \in DOMAIN item.obj
IsStr(v, chars) == v.kind = "str" /\ v.str = chars

\* what rendering one item adds to the placeholder, or the exception it
\* raises: item["type"] and item["content"] raise KeyError for a missing
\* key (TypeError when the item is no dict), base64.b64decode raises
\* binascii.Error
RenderItem(item) ==
    IF item.kind # "obj" THEN [exc |-> "TypeError", out |-> <<>>]
    ELSE IF ~HasKey(item, K_type) THEN [exc |-> "KeyError", out |-> <<>>]
    ELSE IF IsStr(item.obj[K_type], T_text)
         THEN IF ~HasKey(item, K_content)
              THEN [exc |-> "KeyError", out |-> <<>>]
              ELSE [exc |-> "none",
                    out |-> <<MarkdownElement(item.obj[K_content].str)>>]
    ELSE IF IsStr(item.obj[K_type], T_image)
         THEN LET caption_text == IF HasKey(item, K_alt_text)
                                  THEN item.obj[K_alt_text].str
                                  ELSE DefaultCaption
              IN
              IF ~HasKey(item, K_content)
              THEN [exc |-> "KeyError", out |-> <<>>]
              ELSE LET d == B64Decode(item.obj[K_content].str) IN
                   IF d.ok
                   THEN [exc |-> "none",
                         out |-> <<ImageElement(d.bytes, caption_text)>>]
                   ELSE [exc |-> "binascii.Error", out |-> <<>>]
    ELSE [exc |-> "none", out |-> <<>>]

RECURSIVE RenderFrom(_, _, _)
RenderFrom(chunks, i, out) ==
    IF i > Len(chunks) THEN [exc |-> "none", out |-> out]
    ELSE LET r == RenderItem(chunks[i]) IN
         IF r.exc # "none" THEN [exc |-> r.exc, out |-> out]
         ELSE RenderFrom(chunks, i + 1, out \o r.out)

\* with response_placeholder.container(): for item in response_chunks: ...
\* The container replaces what the placeholder showed; out holds what was
\* rendered before an exception, if any, stopped the loop.
Render(chunks) == RenderFrom(chunks, 1, <<>>)

(***************************************************************************)
(* The chat window's display of chat_history: what every script run of a   *)
(* logged-in session draws for the blocks of an assistant entry.           *)
(***************************************************************************)
HistoryCaption ==
    <<"G","e","n","e","r","a","t","e","d"," ",
      "D","i","a","g","r","a","m","/","I","m","a","g","e">>

\* the body of `for item in message["content"]`
DisplayItem(item) ==
    IF item.kind # "obj" THEN [exc |-> "TypeError", out |-> <<>>]
    ELSE IF ~HasKey(item, K_type) THEN [exc |-> "KeyError", out |-> <<>>]
    ELSE IF IsStr(item.obj[K_type], T_text)
         THEN IF ~HasKey(item, K_content)
              THEN [exc |-> "KeyError", out |-> <<>>]
              ELSE [exc |-> "none",
                    out |-> <<MarkdownElement(item.obj[K_content].str)>>]
    ELSE IF IsStr(item.obj[K_type], T_image)
         THEN IF ~HasKey(item, K_content)
              THEN [exc |-> "KeyError", out |-> <<>>]
              ELSE LET image_bytes == B64Decode(item.obj[K_content].str) IN
                   IF image_bytes.ok
                   THEN [exc |-> "none",
                         out |-> <<ImageElement(image_bytes.bytes,
                                                HistoryCaption)>>]
                   ELSE [exc |-> "binascii.Error", out |-> <<>>]
    ELSE [exc |-> "none", out |-> <<>>]

RECURSIVE DisplayFrom(_, _, _)
DisplayFrom(blocks, i, out) ==
    IF i > Len(blocks) THEN [exc |-> "none", out |-> out]
    ELSE LET r == DisplayItem(blocks[i]) IN
         IF r.exc # "none" THEN [exc |-> r.exc, out |-> out]
         ELSE DisplayFrom(blocks, i + 1, out \o r.out)

\* what the chat window shows for an assistant entry
Display(entry) == DisplayFrom(entry.blocks, 1, <<>>)

(***************************************************************************)
(* The decode loop of send_message, on its local variables.                *)
(***************************************************************************)
\* response_chunks = [], response_placeholder = st.empty(), buffer = b""
TurnStart ==
    [buffer |-> <<>>, response_chunks |-> <<>>, placeholder |-> <<>>,
     exc |-> "none", warned |-> FALSE]

\* TryParse without `buffer = b""` after a successful parse
TryParseKeepsBuffer(st) ==
    LET r == LoadsBuffer(st.buffer) IN
    IF r.exc = "JSONDecodeError" THEN st
    ELSE IF r.exc # "none" THEN [st EXCEPT !.exc = r.exc]
    ELSE LET chunks == Append(st.response_chunks, r.val)
             shown  == Render(chunks)
         IN [st EXCEPT !.response_chunks = chunks,
                       !.placeholder = shown.out, !.exc = shown.exc]

\* TryParse with `buffer = b""` in the handler of JSONDecodeError
TryParseDropsOnFail(st) ==
    LET r == LoadsBuffer(st.buffer) IN
    IF r.exc = "JSONDecodeError" THEN [st EXCEPT !.buffer = <<>>]
    ELSE IF r.exc # "none" THEN [st EXCEPT !.exc = r.exc]
    ELSE LET chunks == Append(st.response_chunks, r.val)
             shown  == Render(chunks)
         IN [st EXCEPT !.buffer = <<>>, !.response_chunks = chunks,
                       !.placeholder = shown.out, !.exc = shown.exc]

\* TryParse with response_chunks.insert(0, chunk_data) for the append
TryParseInsertsFirst(st) ==
    LET r == LoadsBuffer(st.buffer) IN
    IF r.exc = "JSONDecodeError" THEN st
    ELSE IF r.exc # "none" THEN [st EXCEPT !.exc = r.exc]
    ELSE LET chunks == <<r.val>> \o st.response_chunks
             shown  == Render(chunks)
         IN [st EXCEPT !.buffer = <<>>, !.response_chunks = chunks,
                       !.placeholder = shown.out, !.exc = shown.exc]

\* the try block of the loop body, run on the buffer the chunk was added
\* to; exc names the exception that leaves send_message, if any
TryParse(st) ==
    LET r == LoadsBuffer(st.buffer) IN
    IF r.exc = "JSONDecodeError" THEN st
    ELSE IF r.exc # "none" THEN [st EXCEPT !.exc = r.exc]
    ELSE LET chunks == Append(st.response_chunks, r.val)
             shown  == Render(chunks)
         IN [st EXCEPT !.buffer = <<>>, !.response_chunks = chunks,
                       !.placeholder = shown.out, !.exc = shown.exc]

\* one iteration of `for chunk in response.iter_content(...)` for a
\* non-empty chunk
OnChunk(st, chunk) == TryParse([st EXCEPT !.buffer = @ \o chunk])

\* AfterStream with a bare `pass` in the handler of the last parse
AfterStreamSilent(st) ==
    IF st.buffer = <<>> THEN st
    ELSE LET r == LoadsBuffer(st.buffer) IN
         IF r.exc = "JSONDecodeError" THEN st
         ELSE IF r.exc # "none" THEN [st EXCEPT !.exc = r.exc]
         ELSE LET chunks == Append(st.response_chunks, r.val)
                  shown  == Render(chunks)
              IN [st EXCEPT !.response_chunks = chunks,
                            !.placeholder = shown.out, !.exc = shown.exc]

\* after the loop: `if buffer:` one last parse; warned tells whether
\* st.warning was called
AfterStream(st) ==
    IF st.buffer = <<>> THEN st
    ELSE LET r == LoadsBuffer(st.buffer) IN
         IF r.exc = "JSONDecodeError" THEN [st EXCEPT !.warned = TRUE]
         ELSE IF r.exc # "none" THEN [st EXCEPT !.exc = r.exc]
         ELSE LET chunks == Append(st.response_chunks, r.val)
                  shown  == Render(chunks)
              IN [st EXCEPT !.response_chunks = chunks,
                            !.placeholder = shown.out, !.exc = shown.exc]

(***************************************************************************)
(* State.                                                                  *)
(***************************************************************************)
VARIABLES
    logged_in,        \* st.session_state.logged_in
    username,         \* st.session_state.username
    password,         \* st.session_state.password
    session_id,       \* st.session_state.session_id, "unset" while absent
    chat_history,     \* st.session_state.chat_history
    pc,               \* "idle" between script runs; inside send_message
                      \* "streaming" at the head of the decode loop,
                      \* "parsing" after `buffer += chunk` and "ended"
                      \* when it returns or raises
    sent,             \* the kinds of the objects of the response body
    pos,              \* the bytes of the body iter_content has yielded
    nfrag,            \* the chunks iter_content has yielded: 0, 1, 2 = more
    frags,            \* the sizes of the chunks (the worked example only)
    buffer,           \* send_message's buffer
    response_chunks,  \* send_message's response_chunks
    placeholder,      \* what response_placeholder shows
    notices,          \* st.error / st.warning / st.success calls of the run
    outcome,          \* how the latest send_message call ended
    exc,              \* the exception that ended the latest script run
    spent,            \* the part of MaxLoad the session has used up
    stale,            \* what the variable buffer held, left there by the
                      \* call before, when the latest send_message call
                      \* started its decode loop
    rag_sources,      \* st.session_state.rag_sources
    db_sources,       \* the names of the documents the backend holds
    posted            \* the POSTs to /upload_files of the load_doc_to_db
                      \* call that has just returned; empty once the
                      \* script has run again

vars == <<logged_in, username, password, session_id, chat_history, pc, sent,
          pos, nfrag, frags, buffer, response_chunks, placeholder, notices,
          outcome, exc, spent, stale, rag_sources, db_sources, posted>>

session == <<logged_in, username, password, session_id>>
locals == <<buffer, response_chunks, placeholder>>
documents == <<rag_sources, db_sources, posted>>

Users == {"alice"}
Passwords == {"secret"}
\* the session ids the backend hands out
SessionIds == {"s1"}
Messages == {"hello"}

\* st.error, st.warning and st.success calls
Error(text) == [level |-> "error", text |-> text]
Warning(text) == [level |-> "warning", text |-> text]
Success(text) == [level |-> "success", text |-> text]

UserEntry(text) ==
    [role |-> "user", text |-> text, blocks |-> <<>>, username |-> ""]
AssistantEntry(blocks, user) ==
    [role |-> "assistant", text |-> "", blocks |-> blocks, username |-> user]

Min(a, b) == IF a < b THEN a ELSE b
Last(s) == s[Len(s)]
IsPrefix(s, t) == Len(s) <= Len(t) /\ SubSeq(t, 1, Len(s)) = s

\* the session state of a new browser session
InitSession ==
    /\ logged_in = FALSE
    /\ username = ""
    /\ password = ""
    /\ session_id = "unset"
    /\ chat_history = <<>>
    /\ pc = "idle"
    /\ sent = <<>>
    /\ pos = 0
    /\ nfrag = 0
    /\ frags = <<>>
    /\ buffer = <<>>
    /\ response_chunks = <<>>
    /\ placeholder = <<>>
    /\ notices = <<>>
    /\ outcome = "none"
    /\ exc = "none"
    /\ spent = 0
    /\ stale = <<>>
    /\ rag_sources = {}
    /\ posted = <<>>

\* a new session and a backend that holds no document
Init ==
    /\ InitSession
    /\ db_sources = {}

\* a script run that does not call send_message leaves no trace of an
\* earlier call's local variables
NoTurn ==
    /\ sent' = <<>>
    /\ pos' = 0
    /\ nfrag' = 0
    /\ frags' = <<>>
    /\ buffer' = <<>>
    /\ response_chunks' = <<>>
    /\ placeholder' = <<>>
    /\ outcome' = "none"
    /\ stale' = <<>>

(***************************************************************************)
(* Login page: the "Login" button calls login(username, password).         *)
(***************************************************************************)
LoginResults == {"ok", "no_session_id", "bad_json", "rejected", "unreachable"}

\* login: result is what the POST to /login does -- 200 with a session_id,
\* 200 with JSON that has no (or an empty) session_id, 200 with a body that
\* is no JSON, another status, or a requests.RequestException
Login(u, p, result, sid) ==
    /\ pc = "idle"
    /\ ~logged_in
    /\ IF result \in {"ok", "no_session_id", "bad_json"}
       THEN /\ logged_in' = TRUE
            /\ username' = u
            /\ password' = p
       ELSE UNCHANGED <<logged_in, username, password>>
    /\ session_id' = IF result = "ok" THEN sid ELSE session_id
    /\ notices' =
         CASE result = "ok"            -> <<>>
           [] result = "no_session_id" -> <<Error("Session ID not found in response.")>>
           [] result = "bad_json"      -> <<Error("Failed to parse login response.")>>
           [] result = "rejected"      -> <<Error("Incorrect username or password")>>
           [] result = "unreachable"   -> <<Error("Failed to connect to the backend")>>
    /\ exc' = "none"
    /\ NoTurn
    /\ UNCHANGED <<chat_history, pc, spent, documents>>

(***************************************************************************)
(* Chat interface: st.chat_input appends the user's entry and calls        *)
(* send_message, then st.rerun().                                          *)
(***************************************************************************)
ChatGuard ==
    /\ pc = "idle"
    /\ logged_in
    /\ spent < MaxLoad

\* ChatEntry with the user's entry put in front of the transcript
ChatEntryPrepends(text) ==
    /\ chat_history' = <<UserEntry(text)>> \o chat_history
    /\ UNCHANGED session

\* the part of the handler before send_message's request
ChatEntry(text) ==
    /\ chat_history' = Append(chat_history, UserEntry(text))
    /\ UNCHANGED session

\* st.session_state.session_id does not exist: building the request raises
\* AttributeError, which `except requests.RequestException` does not catch
ChatNoSession(text) ==
    /\ ChatGuard
    /\ session_id = "unset"
    /\ ChatEntry(text)
    /\ spent' = spent + 1
    /\ sent' = <<>> /\ pos' = 0 /\ nfrag' = 0 /\ frags' = <<>>
    /\ buffer' = <<>> /\ response_chunks' = <<>> /\ placeholder' = <<>>
    /\ UNCHANGED <<stale, documents>>
    /\ outcome' = "raised"
    /\ notices' = <<>>
    /\ exc' = "AttributeError"
    /\ pc' = "ended"

\* ChatRejected with the turn stored outside `if response.status_code == 200`
ChatRejectedStores(text) ==
    /\ ChatGuard
    /\ session_id # "unset"
    /\ chat_history' = chat_history \o
                         <<UserEntry(text), AssistantEntry(<<>>, username)>>
    /\ UNCHANGED session
    /\ spent' = spent + 1
    /\ sent' = <<>> /\ pos' = 0 /\ nfrag' = 0 /\ frags' = <<>>
    /\ buffer' = <<>> /\ response_chunks' = <<>> /\ placeholder' = <<>>
    /\ UNCHANGED <<stale, documents>>
    /\ outcome' = "http_error"
    /\ notices' = <<Error("Failed to send message")>>
    /\ exc' = "none"
    /\ pc' = "ended"

\* the POST to /chat answers with a status other than 200
ChatRejected(text) ==
    /\ ChatGuard
    /\ session_id # "unset"
    /\ ChatEntry(text)
    /\ spent' = spent + 1
    /\ sent' = <<>> /\ pos' = 0 /\ nfrag' = 0 /\ frags' = <<>>
    /\ buffer' = <<>> /\ response_chunks' = <<>> /\ placeholder' = <<>>
    /\ UNCHANGED <<stale, documents>>
    /\ outcome' = "http_error"
    /\ notices' = <<Error("Failed to send message")>>
    /\ exc' = "none"
    /\ pc' = "ended"

\* the POST to /chat raises a requests.RequestException
ChatUnreachable(text) ==
    /\ ChatGuard
    /\ session_id # "unset"
    /\ ChatEntry(text)
    /\ spent' = spent + 1
    /\ sent' = <<>> /\ pos' = 0 /\ nfrag' = 0 /\ frags' = <<>>
    /\ buffer' = <<>> /\ response_chunks' = <<>> /\ placeholder' = <<>>
    /\ UNCHANGED <<stale, documents>>
    /\ outcome' = "transport_error"
    /\ notices' = <<Error("Error communicating with backend")>>
    /\ exc' = "none"
    /\ pc' = "ended"

\* ChatStream without `buffer = b""`, on a buffer that outlives the call
ChatStreamSharesBuffer(text, body) ==
    /\ ChatGuard
    /\ session_id # "unset"
    /\ 1 + Len(body) <= MaxLoad - spent
    /\ ChatEntry(text)
    /\ spent' = spent + 1 + Len(body)
    /\ pc' = "streaming"
    /\ sent' = body
    /\ pos' = 0
    /\ nfrag' = 0
    /\ frags' = <<>>
    /\ stale' = buffer
    /\ UNCHANGED documents
    /\ buffer' = buffer
    /\ response_chunks' = TurnStart.response_chunks
    /\ placeholder' = TurnStart.placeholder
    /\ outcome' = "none"
    /\ notices' = <<>>
    /\ exc' = "none"

\* the POST to /chat answers 200: send_message enters its decode loop; body
\* is what the backend is going to write
ChatStream(text, body) ==
    /\ ChatGuard
    /\ session_id # "unset"
    /\ 1 + Len(body) <= MaxLoad - spent
    /\ ChatEntry(text)
    /\ spent' = spent + 1 + Len(body)
    /\ pc' = "streaming"
    /\ sent' = body
    /\ pos' = 0
    /\ nfrag' = 0
    /\ frags' = <<>>
    /\ stale' = buffer
    /\ UNCHANGED documents
    /\ buffer' = TurnStart.buffer
    /\ response_chunks' = TurnStart.response_chunks
    /\ placeholder' = TurnStart.placeholder
    /\ outcome' = "none"
    /\ notices' = <<>>
    /\ exc' = "none"

\* send_message's local variables as a record
Locals ==
    [buffer |-> buffer, response_chunks |-> response_chunks,
     placeholder |-> placeholder, exc |-> "none", warned |-> FALSE]

\* the bytes of the body iter_content has not yielded yet
Pending == SubSeq(Body(sent), pos + 1, Len(Body(sent)))

\* iter_content yields chunk, the next bytes of the body, and the loop body
\* adds it to the buffer: `buffer += chunk`
ChunkStep(chunk) ==
    /\ pc = "streaming"
    /\ pc' = "parsing"
    /\ buffer' = buffer \o chunk
    /\ pos' = pos + Len(chunk)
    /\ nfrag' = Min(nfrag + 1, 2)
    /\ UNCHANGED <<session, chat_history, sent, response_chunks, placeholder,
                   notices, outcome, exc, spent, stale, documents>>

\* a chunk has at least one and at most chunk_size bytes
Chunk ==
    /\ pc = "streaming"
    /\ LET rest == Pending IN
       \E k \in 1..Min(CHUNK_SIZE, Len(rest)) :
          ChunkStep(SubSeq(rest, 1, k))
    /\ UNCHANGED frags

\* the rest of the loop body: parse the buffer, and on success store and
\* render the block; an exception other than JSONDecodeError leaves
\* send_message and ends the script run
Parse ==
    /\ pc = "parsing"
    /\ LET st == TryParse(Locals) IN
       /\ buffer' = st.buffer
       /\ response_chunks' = st.response_chunks
       /\ placeholder' = st.placeholder
       /\ exc' = st.exc
       /\ pc' = IF st.exc = "none" THEN "streaming" ELSE "ended"
       /\ outcome' = IF st.exc = "none" THEN "none" ELSE "raised"
    /\ UNCHANGED <<session, chat_history, sent, pos, nfrag, frags, notices,
                   spent, stale, documents>>

\* StreamError with the turn stored in a `finally`
StreamErrorStores ==
    /\ pc = "streaming"
    /\ pc' = "ended"
    /\ outcome' = "transport_error"
    /\ notices' = Append(notices, Error("Error communicating with backend"))
    /\ chat_history' =
         Append(chat_history, AssistantEntry(response_chunks, username))
    /\ UNCHANGED <<session, sent, pos, nfrag, frags, locals, exc, spent,
                   stale, documents>>

\* iter_content raises a requests.RequestException in mid-stream (the
\* connection breaks, a read times out): the handler at the end of
\* send_message reports it and send_message returns
StreamError ==
    /\ pc = "streaming"
    /\ pc' = "ended"
    /\ outcome' = "transport_error"
    /\ notices' = Append(notices, Error("Error communicating with backend"))
    /\ UNCHANGED <<session, chat_history, sent, pos, nfrag, frags, locals,
                   exc, spent, stale, documents>>

\* iter_content is exhausted, after all of the body or, when the backend
\* stops early, after a part of it: the last parse, then the turn is stored
EndOfStream ==
    /\ pc = "streaming"
    /\ pc' = "ended"
    /\ LET st == AfterStream(Locals) IN
       /\ buffer' = st.buffer
       /\ response_chunks' = st.response_chunks
       /\ placeholder' = st.placeholder
       /\ exc' = st.exc
       /\ notices' = IF st.warned
                     THEN Append(notices, Warning("Received malformed JSON chunk at end of stream. Skipping."))
                     ELSE notices
       /\ IF st.exc = "none"
          THEN /\ chat_history' =
                    Append(chat_history,
                           AssistantEntry(st.response_chunks, username))
               /\ outcome' = "sealed"
          ELSE /\ chat_history' = chat_history
               /\ outcome' = "raised"
    /\ UNCHANGED <<session, sent, pos, nfrag, frags, spent, stale, documents>>

\* send_message is over: the handler's st.rerun() starts the next script
\* run, or the exception that left send_message has ended this one; either
\* way send_message's local variables are gone and the page is drawn anew
EndRun ==
    /\ pc = "ended"
    /\ pc' = "idle"
    /\ NoTurn
    /\ notices' = <<>>
    /\ exc' = "none"
    /\ UNCHANGED <<session, chat_history, spent, documents>>

(***************************************************************************)
(* Sidebar.                                                                *)
(***************************************************************************)
ResetResults == {"ok", "no_session_id", "rejected", "unreachable"}

\* reset_chat_history, which ends in reset_session_id: result is what the
\* POST to /session_id does (reset_session_id has no try: a
\* RequestException ends the script run)
ResetChatHistory(result, sid) ==
    /\ pc = "idle"
    /\ logged_in
    /\ chat_history' = <<>>
    /\ session_id' = IF result = "ok" THEN sid ELSE session_id
    /\ notices' =
         CASE result = "ok" ->
                <<Success("Chat history cleared!"), Success("Session ID reset")>>
           [] result = "no_session_id" ->
                <<Success("Chat history cleared!"), Success("Session ID reset")>>
           [] result = "rejected" ->
                <<Success("Chat history cleared!"), Error("Failed to reset session ID.")>>
           [] result = "unreachable" ->
                <<Success("Chat history cleared!")>>
    /\ exc' = IF result = "unreachable" THEN "RequestException" ELSE "none"
    /\ NoTurn
    /\ UNCHANGED <<logged_in, username, password, pc, spent, documents>>

IndexResults == {"ok", "rejected", "unreachable"}
FetchResults == {"ok", "failed"}

\* get_rag_files: the names the backend answers with, or set() when it
\* answers with another status than 200 or cannot be reached
GetRagFiles(fetch) == IF fetch = "ok" THEN db_sources ELSE {}

\* what get_rag_files reports
FetchNotices(fetch) ==
    IF fetch = "ok" THEN <<>> ELSE <<Error("Failed to fetch RAG sources.")>>

\* index_documents: result is what the POST to /index does, fetch what the
\* GET of get_rag_files does, which follows unless the POST raised
IndexDocuments(result, fetch) ==
    /\ pc = "idle"
    /\ logged_in
    /\ notices' =
         CASE result = "ok" ->
                <<Success("indexed")>> \o FetchNotices(fetch)
           [] result = "rejected" ->
                <<Error("Failed to index documents. Please try again.")>>
                \o FetchNotices(fetch)
           [] result = "unreachable" ->
                <<Error("Error communicating with backend")>>
    /\ rag_sources' = IF result = "unreachable" THEN rag_sources
                      ELSE GetRagFiles(fetch)
    /\ exc' = "none"
    /\ NoTurn
    /\ UNCHANGED <<session, chat_history, pc, spent, db_sources, posted>>

(***************************************************************************)
(* Sidebar: documents.  The backend holds documents by name; the file      *)
(* uploader calls load_doc_to_db when its selection changes, and the       *)
(* script run that follows fetches the backend's names anew.               *)
(***************************************************************************)
\* document names: one more than the limit allows
DocNames ==
    <<"d01", "d02", "d03", "d04", "d05", "d06", "d07", "d08", "d09", "d10",
      "d11">>

\* what the backend may hold when the session starts
StoredSets == {{DocNames[i] : i \in 1..k} : k \in 0..Len(DocNames)}

\* the files the user has at hand for the uploader
UserFiles == {"d01", "d10", "d11"}

\* what the POST to /upload_files does: 200, another status, or an
\* exception
UploadResults == {"ok", "rejected", "error"}

\* the selections of up to n files, and what the backend does with each
\* file of a selection
Batches(n) == UNION {[1..k -> UserFiles] : k \in 1..n}
BatchResults(batch) == [1..Len(batch) -> UploadResults]

\* the POST of a file: the request made, and what follows from its result
PostFile(st, name, result) ==
    LET post == [name |-> name,
                 present |-> name \in st.rag_sources,
                 held |-> Cardinality(st.rag_sources)]
        made == [st EXCEPT !.posted = Append(@, post)]
    IN
    CASE result = "ok" ->
           [made EXCEPT !.rag_sources = @ \cup {name},
                        !.db_sources = @ \cup {name},
                        !.notices = Append(@, Success("Uploaded and indexed"))]
      [] result = "rejected" ->
           [made EXCEPT !.notices = Append(@, Error("Failed to upload"))]
      [] result = "error" ->
           [made EXCEPT !.notices = Append(@, Error("Error uploading"))]

\* the else branch of the comparison with DB_DOCS_LIMIT
LimitReached(st) ==
    [st EXCEPT !.notices =
        Append(@, Error("Maximum number of documents reached (10)."))]

RECURSIVE UploadFromInclusive(_, _, _, _)
\* UploadFrom with `<=` in the comparison with DB_DOCS_LIMIT
UploadFromInclusive(batch, results, i, st) ==
    IF i > Len(batch) THEN st
    ELSE IF batch[i] \in st.rag_sources
    THEN UploadFromInclusive(batch, results, i + 1, st)
    ELSE IF Cardinality(st.rag_sources) <= DB_DOCS_LIMIT
    THEN UploadFromInclusive(batch, results, i + 1,
                             PostFile(st, batch[i], results[i]))
    ELSE UploadFromInclusive(batch, results, i + 1, LimitReached(st))

RECURSIVE UploadFrom(_, _, _, _)
\* `for doc_file in st.session_state.rag_docs` from the i-th file on; st
\* holds rag_sources, the backend's names, the POSTs made and the notices
UploadFrom(batch, results, i, st) ==
    IF i > Len(batch) THEN st
    ELSE IF batch[i] \in st.rag_sources
    THEN UploadFrom(batch, results, i + 1, st)
    ELSE IF Cardinality(st.rag_sources) < DB_DOCS_LIMIT
    THEN UploadFrom(batch, results, i + 1,
                    PostFile(st, batch[i], results[i]))
    ELSE UploadFrom(batch, results, i + 1, LimitReached(st))

\* load_doc_to_db, the uploader's on_change callback, for a selection that
\* is not empty; the script run that follows is ScriptRun
LoadDocToDb(batch, results) ==
    /\ pc = "idle"
    /\ logged_in
    /\ 1 + Len(batch) <= MaxLoad - spent
    /\ spent' = spent + 1 + Len(batch)
    /\ pc' = "uploaded"
    /\ LET st == UploadFrom(batch, results, 1,
                            [rag_sources |-> rag_sources,
                             db_sources |-> db_sources,
                             posted |-> <<>>, notices |-> <<>>])
       IN /\ rag_sources' = st.rag_sources
          /\ db_sources' = st.db_sources
          /\ posted' = st.posted
          /\ notices' = st.notices
    /\ exc' = "none"
    /\ NoTurn
    /\ UNCHANGED <<session, chat_history>>

\* a script run of a logged-in session in which no widget fires, as after a
\* callback or a st.rerun(): the sidebar assigns get_rag_files() to
\* rag_sources
ScriptRun(fetch) ==
    /\ pc \in {"idle", "uploaded"}
    /\ logged_in
    /\ pc' = "idle"
    /\ rag_sources' = GetRagFiles(fetch)
    /\ notices' = FetchNotices(fetch)
    /\ posted' = <<>>
    /\ exc' = "none"
    /\ NoTurn
    /\ UNCHANGED <<session, chat_history, spent, db_sources>>

DeleteResults == {"ok", "rejected", "error"}

\* the "Delete" button of a source: result is what the POST to
\* /delete_rag_source does; on 200 the name is removed and st.rerun()
\* ends the run, on another status the names are fetched anew
DeleteSource(src, result, fetch) ==
    /\ pc = "idle"
    /\ logged_in
    /\ src \in rag_sources
    /\ spent < MaxLoad
    /\ spent' = spent + 1
    /\ CASE result = "ok" ->
              /\ rag_sources' = rag_sources \ {src}
              /\ db_sources' = db_sources \ {src}
              /\ notices' = <<Success("Deleted")>>
         [] result = "rejected" ->
              /\ rag_sources' = GetRagFiles(fetch)
              /\ db_sources' = db_sources
              /\ notices' = <<Error("Failed to delete")>> \o FetchNotices(fetch)
         [] result = "error" ->
              /\ rag_sources' = rag_sources
              /\ db_sources' = db_sources
              /\ notices' = <<Error("Error deleting")>>
    /\ exc' = "none"
    /\ NoTurn
    /\ UNCHANGED <<session, chat_history, pc, posted>>

\* a new session and a backend that holds some documents
InitUpload ==
    /\ InitSession
    /\ db_sources \in StoredSets

UploadNext ==
    \/ \E u \in Users, p \in Passwords, r \in LoginResults, i \in SessionIds :
          Login(u, p, r, i)
    \/ \E f \in FetchResults : ScriptRun(f)
    \/ \E b \in Batches(MaxLoad - 1) : \E rs \in BatchResults(b) :
          LoadDocToDb(b, rs)
    \/ \E d \in DOMAIN DocNames, r \in DeleteResults, f \in FetchResults :
          DeleteSource(DocNames[d], r, f)
    \/ \E r \in IndexResults, f \in FetchResults : IndexDocuments(r, f)

SpecUpload == InitUpload /\ [][UploadNext]_vars

Next ==
    \/ \E u \in Users, p \in Passwords, r \in LoginResults, i \in SessionIds :
          Login(u, p, r, i)
    \/ \E m \in Messages : ChatNoSession(m)
    \/ \E m \in Messages : ChatRejected(m)
    \/ \E m \in Messages : ChatUnreachable(m)
    \/ \E m \in Messages, b \in Bodies : ChatStream(m, b)
    \/ Chunk
    \/ Parse
    \/ StreamError
    \/ EndOfStream
    \/ EndRun
    \/ \E r \in ResetResults, i \in SessionIds : ResetChatHistory(r, i)
    \/ \E r \in IndexResults, f \in FetchResults : IndexDocuments(r, f)

Spec == Init /\ [][Next]_vars

(***************************************************************************)
(* The worked example: one session that logs in and sends one message,     *)
(* answered by the two objects of the example; the sizes of the chunks are *)
(* recorded, and the third chunk is the rest of the body.                  *)
(***************************************************************************)
ExampleKinds == <<"exText", "exImage">>

ExampleChunk ==
    /\ pc = "streaming"
    /\ LET rest == Pending IN
       \E k \in 1..Min(CHUNK_SIZE, Len(rest)) :
          /\ Len(frags) < 2 \/ (Len(frags) = 2 /\ k = Len(rest))
          /\ ChunkStep(SubSeq(rest, 1, k))
          /\ frags' = Append(frags, k)

ExampleNext ==
    \/ \E u \in Users, p \in Passwords, i \in SessionIds : Login(u, p, "ok", i)
    \/ \E m \in Messages : ChatStream(m, ExampleKinds)
    \/ ExampleChunk
    \/ Parse
    \/ EndOfStream
    \/ EndRun

SpecExample == Init /\ [][ExampleNext]_vars

(***************************************************************************)
(* Turn after turn: sessions that log in and send messages which are       *)
(* answered with text and image blocks.  Where the chat handler's          *)
(* st.rerun() ends the script run, the variables of send_message are left  *)
(* showing what the call held when it ended, as a buffer that outlived     *)
(* the call would.                                                         *)
(***************************************************************************)
TurnBodies == {b \in Bodies : \A i \in 1..Len(b) : b[i] \in ValidKinds}

Return ==
    /\ pc = "ended"
    /\ pc' = "idle"
    /\ notices' = <<>>
    /\ exc' = "none"
    /\ UNCHANGED <<session, chat_history, sent, pos, nfrag, frags, locals,
                   outcome, spent, stale, documents>>

TurnsNext ==
    \/ \E u \in Users, p \in Passwords, i \in SessionIds : Login(u, p, "ok", i)
    \/ \E m \in Messages, b \in TurnBodies : ChatStream(m, b)
    \/ Chunk
    \/ Parse
    \/ EndOfStream
    \/ Return

SpecTurns == Init /\ [][TurnsNext]_vars

(***************************************************************************)
(* Properties.                                                             *)
(***************************************************************************)
AllValid(kinds) == \A i \in 1..Len(kinds) : kinds[i] \in ValidKinds
Complete == pos = Len(Body(sent))
NumWarnings(ns) == Cardinality({i \in 1..Len(ns) : ns[i].level = "warning"})
Front(s) == SubSeq(s, 1, Len(s) - 1)

\* the block list of a body delivered as one chunk
SingleShot(kinds) ==
    AfterStream(OnChunk(TurnStart, Body(kinds))).response_chunks

\* C1: when the whole body of N >= 1 well-formed blocks arrives as one
\* chunk and the stream ends, response_chunks holds exactly the N blocks in
\* source order.
C1_SingleShotCompleteness ==
    (/\ pc = "ended"
     /\ outcome # "transport_error"
     /\ AllValid(sent)
     /\ nfrag = 1
     /\ Complete)
    => /\ outcome = "sealed"
       /\ response_chunks = Blocks(sent)

\* C2: however the body of N well-formed blocks is cut into chunks, the
\* block list at the end of the stream is the one a single chunk gives.
C2_FragmentationInvariance ==
    (/\ pc = "ended"
     /\ outcome # "transport_error"
     /\ AllValid(sent)
     /\ Complete)
    => response_chunks = SingleShot(sent)

\* C3: when the stream ends strictly inside the last of N well-formed
\* blocks, send_message stores exactly the first N - 1 blocks, warns once
\* and raises nothing.
C3_TruncationTolerance ==
    (/\ pc = "ended"
     /\ outcome # "transport_error"
     /\ AllValid(sent)
     /\ sent # <<>>
     /\ pos > Len(Body(Front(sent)))
     /\ pos < Len(Body(sent)))
    => /\ outcome = "sealed"
       /\ exc = "none"
       /\ response_chunks = Blocks(Front(sent))
       /\ Last(chat_history).blocks = Blocks(Front(sent))
       /\ NumWarnings(notices) = 1

\* C4: when an object of type "chart" is decoded between two well-formed
\* blocks, the stored turn holds the two blocks in order and not the
\* chart, and one warning is reported.
C4_MalformedTypeSkip ==
    (/\ pc = "ended"
     /\ outcome = "sealed"
     /\ Len(sent) = 3
     /\ sent[1] \in ValidKinds /\ sent[2] = "chart" /\ sent[3] \in ValidKinds
     /\ Complete
     /\ buffer = <<>>)
    => /\ Last(chat_history).blocks =
            <<BlockValue(sent[1]), BlockValue(sent[3])>>
       /\ NumWarnings(notices) = 1

\* C5: an object without a type, or an image whose content is no base64,
\* does not end the stream: send_message raises nothing and stores the
\* turn.
C5_BlockErrorsDoNotAbort ==
    (/\ pc = "ended"
     /\ outcome # "transport_error"
     /\ \E i \in 1..Len(sent) : sent[i] \in {"notype", "badb64"})
    => /\ outcome = "sealed"
       /\ exc = "none"
       /\ Last(chat_history).role = "assistant"

\* C6: when the chat request is answered with another status than 200, or
\* a connection error is raised before any chunk is read, nothing is
\* decoded and chat_history is what it was when send_message was entered:
\* the transcript before the message, and the user's entry.
C6_TransportFailureNoTurn ==
    [][(/\ pc' = "ended"
        /\ outcome' \in {"http_error", "transport_error"}
        /\ nfrag' = 0)
       => /\ pc = "idle" =>
               \E m \in Messages : chat_history' = Append(chat_history, UserEntry(m))
          /\ pc # "idle" => chat_history' = chat_history
          /\ Last(chat_history').role = "user"
          /\ response_chunks' = <<>>
          /\ placeholder' = <<>>
          /\ buffer' = <<>>]_vars

C6_Witness ==
    /\ pc = "ended"
    /\ outcome = "http_error"
    /\ Len(chat_history) = 3

\* C7 as claimed: chat_history changes only by an entry appended at its end.
C7_AppendOnly ==
    [][\/ chat_history' = chat_history
       \/ /\ Len(chat_history') = Len(chat_history) + 1
          /\ IsPrefix(chat_history, chat_history')]_vars

\* C7 as amended: chat_history changes only by an entry appended at its
\* end, or by reset chat history, which empties it.
C7_AppendOrReset ==
    [][\/ chat_history' = chat_history
       \/ /\ Len(chat_history') = Len(chat_history) + 1
          /\ IsPrefix(chat_history, chat_history')
       \/ /\ chat_history' = <<>>
          /\ notices' # <<>>
          /\ notices'[1] = Success("Chat history cleared!")]_vars

C7_Witness ==
    /\ Len(chat_history) = 4
    /\ chat_history[2].blocks # <<>>
    /\ chat_history[4].role = "assistant"

\* C8: when the transport raises in mid-stream, after any number of blocks,
\* no assistant entry is appended: the transcript still ends with the
\* user's entry.
C8_NoPartialTurn ==
    (pc = "ended" /\ outcome = "transport_error")
    => /\ chat_history # <<>>
       /\ Last(chat_history).role = "user"

C8_Witness ==
    /\ pc = "ended"
    /\ outcome = "transport_error"
    /\ response_chunks # <<>>
    /\ buffer # <<>>

\* C9: when the stream ends with a buffer that is not empty and does not
\* parse, one warning is issued, and the entry appended to chat_history
\* holds exactly the blocks emitted before; nothing more is rendered.
C9_ResidueDropped ==
    [][(/\ pc = "streaming"
        /\ buffer # <<>>
        /\ LoadsBuffer(buffer).exc # "none"
        /\ pc' = "ended"
        /\ outcome' # "transport_error")
       => /\ outcome' = "sealed"
          /\ NumWarnings(notices') = 1
          /\ chat_history' =
               Append(chat_history, AssistantEntry(response_chunks, username))
          /\ response_chunks' = response_chunks
          /\ placeholder' = placeholder]_vars

C9_Witness ==
    /\ pc = "ended"
    /\ outcome = "sealed"
    /\ buffer # <<>>
    /\ response_chunks # <<>>
    /\ Last(chat_history).blocks = response_chunks

\* C10: the example body delivered as chunks of 10, 40 and 31 bytes decodes
\* to Text("Hello") followed by Image(b"hi", "x").
C10_WorkedExample ==
    (/\ pc = "ended"
     /\ sent = ExampleKinds
     /\ frags = <<10, 40, 31>>)
    => /\ response_chunks = Blocks(ExampleKinds)
       /\ placeholder =
            <<MarkdownElement(<<"H","e","l","l","o">>),
              ImageElement(<<104, 105>>, <<"x">>)>>

IsProperPrefix(s, t) == Len(s) < Len(t) /\ SubSeq(t, 1, Len(s)) = s

\* the buffer is the beginning, and not all, of one of the objects of the
\* body
Incomplete(buf) ==
    /\ buf # <<>>
    /\ \E i \in 1..Len(sent) : IsProperPrefix(buf, Wire(sent[i]))

\* C11: when the buffer with the chunk added is a proper prefix of a JSON
\* value, also one that ends inside a two-byte character, the parse adds
\* no block, reports nothing, raises nothing, leaves the buffer as it is
\* and the loop goes on to the next chunk.
C11_IncompleteIsNoError ==
    [][(pc = "parsing" /\ Incomplete(buffer))
       => /\ pc' = "streaming"
          /\ exc' = "none"
          /\ buffer' = buffer
          /\ response_chunks' = response_chunks
          /\ placeholder' = placeholder
          /\ notices' = notices]_vars

\* the bytes of the body's first n objects
BodyOfFirst(n) == Body(SubSeq(sent, 1, n))

\* C12: a parse that adds a block was given a buffer that is exactly one
\* complete object, and leaves the buffer empty; so at every moment the
\* bytes received are the bytes of the blocks stored followed by the
\* buffer: no byte of a later value has been thrown away.
C12_ParseConsumesAll ==
    /\ [](SubSeq(Body(sent), 1, pos)
            = BodyOfFirst(Len(response_chunks)) \o buffer)
    /\ [][(pc = "parsing" /\ response_chunks' # response_chunks)
          => /\ \E i \in 1..Len(sent) : buffer = Wire(sent[i])
             /\ buffer' = <<>>]_vars

C12_Witness ==
    /\ pc = "streaming"
    /\ buffer = <<>>
    /\ Len(response_chunks) = 2
    /\ nfrag = 2
    /\ pos < Len(Body(sent))

\* C13: during a turn response_chunks holds the values parsed so far, each
\* once and in the order they were parsed; a step of the turn leaves the
\* list alone or appends one value at its end; and the entry stored at the
\* end of the stream holds the list as it then is.
C13_ExactlyOnceInOrder ==
    /\ [](response_chunks = Blocks(SubSeq(sent, 1, Len(response_chunks))))
    /\ [][(pc # "idle" /\ pc' # "idle")
          => /\ IsPrefix(response_chunks, response_chunks')
             /\ Len(response_chunks') <= Len(response_chunks) + 1
             /\ outcome' = "sealed" =>
                  /\ Last(chat_history').role = "assistant"
                  /\ Last(chat_history').blocks = response_chunks']_vars

C13_Witness ==
    /\ pc = "ended"
    /\ outcome = "sealed"
    /\ Len(sent) = 3
    /\ sent[1] # sent[2]
    /\ Last(chat_history).blocks = Blocks(sent)

\* C14: a send_message call that was answered with 200 and is over, with
\* no connection error, has appended one assistant entry, directly after
\* the entry of the user's message.
C14_SealedOnceAtEnd ==
    (/\ pc = "ended"
     /\ outcome \notin {"http_error", "transport_error"}
     /\ exc # "AttributeError")
    => /\ outcome = "sealed"
       /\ Len(chat_history) >= 2
       /\ Last(chat_history).role = "assistant"
       /\ chat_history[Len(chat_history) - 1].role = "user"

\* C15: a send_message call starts its decode loop with an empty buffer
\* and an empty block list, whatever the call before left; and throughout
\* the call the blocks stored and the buffer are made of the bytes this
\* call received and of nothing else.
C15_TurnIsolation ==
    /\ [][(pc = "idle" /\ pc' = "streaming")
          => buffer' = <<>> /\ response_chunks' = <<>>]_vars
    /\ [](pc # "idle" =>
            /\ BodyOfFirst(Len(response_chunks)) \o buffer
                 = SubSeq(Body(sent), 1, pos)
            /\ response_chunks = Blocks(SubSeq(sent, 1, Len(response_chunks))))

C15_Witness ==
    /\ pc = "ended"
    /\ outcome = "sealed"
    /\ stale # <<>>
    /\ Len(chat_history) = 4
    /\ sent # <<>>
    /\ response_chunks = Blocks(sent)

IsImageBlock(item) ==
    item.kind = "obj" /\ HasKey(item, K_type) /\ IsStr(item.obj[K_type], T_image)
IsImageElement(e) == e.kind = "image"

\* the caption an image block is to be shown with
ExpectedCaption(item) ==
    IF HasKey(item, K_alt_text) /\ item.obj[K_alt_text].str # <<>>
    THEN item.obj[K_alt_text].str
    ELSE DefaultCaption

\* the images among the elements shown carry, in order, the captions the
\* image blocks among the items are to be shown with
CaptionsAsExpected(items, shown) ==
    LET images == SelectSeq(items, IsImageBlock)
        drawn  == SelectSeq(shown, IsImageElement)
    IN /\ Len(drawn) = Len(images)
       /\ \A i \in 1..Len(images) :
             drawn[i].caption = ExpectedCaption(images[i])

\* C16: wherever an image block is rendered, in the placeholder during the
\* stream and in the chat window's display of the stored turn, its caption
\* is its alt_text, or "Generated Image" when it has no alt_text or an
\* empty one.
C16_CaptionDefault ==
    /\ (pc \in {"streaming", "ended"} /\ exc = "none")
         => CaptionsAsExpected(response_chunks, placeholder)
    /\ \A i \in 1..Len(chat_history) :
          chat_history[i].role = "assistant"
          => CaptionsAsExpected(chat_history[i].blocks,
                                Display(chat_history[i]).out)

\* the buffer holds one complete object of the body and at least one more
\* byte after it (the bodies have no whitespace between their objects)
Stalled(buf) == \E i \in 1..Len(sent) : IsProperPrefix(Wire(sent[i]), buf)

\* C17 as claimed: once the buffer holds a complete value followed by a
\* further byte, no step of the turn adds a block, and the turn ends sealed
\* with the end-of-stream warning.
C17_SecondValueStalls ==
    [][(pc \in {"streaming", "parsing"} /\ Stalled(buffer))
       => /\ response_chunks' = response_chunks
          /\ pc' = "ended" => /\ outcome' = "sealed"
                              /\ NumWarnings(notices') = 1]_vars

\* C17 as amended: once the buffer holds a complete value followed by a
\* further byte, no step of the turn adds a block and the buffer only
\* grows; when the stream then ends, the turn is stored with the blocks it
\* had and the end-of-stream warning is issued; the turn may instead be
\* cut off, without the warning, by a connection error or by the
\* UnicodeDecodeError of a chunk that ends inside a character.
C17_StallsUntilTurnEnds ==
    [][(pc \in {"streaming", "parsing"} /\ Stalled(buffer))
       => /\ response_chunks' = response_chunks
          /\ IsPrefix(buffer, buffer')
          /\ pc' = "ended" =>
               \/ /\ outcome' = "sealed"
                  /\ NumWarnings(notices') = 1
                  /\ Last(chat_history').blocks = response_chunks
               \/ /\ outcome' = "transport_error"
                  /\ NumWarnings(notices') = 0
                  /\ chat_history' = chat_history
               \/ /\ outcome' = "raised"
                  /\ exc' = "UnicodeDecodeError"
                  /\ NumWarnings(notices') = 0
                  /\ chat_history' = chat_history]_vars

C17_Witness ==
    /\ pc = "ended"
    /\ outcome = "sealed"
    /\ Stalled(buffer)
    /\ Complete
    /\ Len(sent) = 3
    /\ Len(response_chunks) = 1
    /\ NumWarnings(notices) = 1

\* C18: a buffer that is not empty when the loop asks for the next chunk
\* has failed its parse with JSONDecodeError; so when the stream ends on a
\* non-empty buffer the last parse fails too: the warning is issued and no
\* block is added.
C18_FinalParseNeverEmits ==
    /\ []((pc = "streaming" /\ buffer # <<>>)
            => LoadsBuffer(buffer).exc = "JSONDecodeError")
    /\ [][(/\ pc = "streaming"
           /\ buffer # <<>>
           /\ pc' = "ended"
           /\ outcome' # "transport_error")
          => /\ outcome' = "sealed"
             /\ response_chunks' = response_chunks
             /\ NumWarnings(notices') = NumWarnings(notices) + 1]_vars

C18_Witness ==
    /\ pc = "ended"
    /\ outcome = "sealed"
    /\ Incomplete(buffer)
    /\ Len(response_chunks) = 2
    /\ NumWarnings(notices) = 1

\* C19: in every state a session that is logged in has a session id
\* stored, so the chat interface is never shown without one.
C19_LoggedInHasSessionId == logged_in => session_id # "unset"

\* C20: load_doc_to_db posts a file only when its name is not among
\* rag_sources and rag_sources holds fewer than DB_DOCS_LIMIT names at that
\* moment; it only adds names, each one a name it has posted; and starting
\* from at most DB_DOCS_LIMIT names it leaves at most DB_DOCS_LIMIT names.
C20_UploadRespectsLimit ==
    /\ [](\A i \in 1..Len(posted) :
             ~posted[i].present /\ posted[i].held < DB_DOCS_LIMIT)
    /\ [][pc' = "uploaded"
          => /\ rag_sources \subseteq rag_sources'
             /\ rag_sources' \ rag_sources
                  \subseteq {posted'[i].name : i \in 1..Len(posted')}
             /\ \A i \in 1..Len(posted') : posted'[i].name \notin rag_sources
             /\ Cardinality(rag_sources) <= DB_DOCS_LIMIT
                  => Cardinality(rag_sources') <= DB_DOCS_LIMIT]_vars

C20_Witness ==
    /\ pc = "uploaded"
    /\ Cardinality(rag_sources) = DB_DOCS_LIMIT
    /\ Len(posted) = 1
    /\ posted[1].held = DB_DOCS_LIMIT - 1
    /\ \E i \in 1..Len(notices) :
          notices[i] = Error("Maximum number of documents reached (10).")

====
